---- MODULE Spec2Model ----
(***************************************************************************)
(* A model of the Agentic-AI-Doctor data-preparation pipeline:             *)
(*   - Ingest_Data (src/components/download_data_file.py): configuration   *)
(*     resolution, download with retries, archive extraction;              *)
(*   - PDFVectorStore and the module-level script of                       *)
(*     src/components/memory_for_llm.py;                                   *)
(*   - the orchestrators src/pipeline/stage01_data_ingestion.py,           *)
(*     src/pipeline/stage02_memory.py and the top-level script train.py.   *)
(* Calls into third-party libraries (gdown, zipfile, tarfile, langchain,   *)
(* FAISS) are modelled by the set of outcomes they can produce.            *)
(***************************************************************************)
EXTENDS Integers, Sequences, FiniteSets, TLC

VARIABLES
    environ,    \* SOURCE_URL of the environment and the "DATA INGESTION" config entries
    call,       \* the arguments of the Ingest_Data(...) constructor call
    obj,        \* the fields of the Ingest_Data object
    ctor,       \* outcome of the constructor call
    fs,         \* the files and directories Ingest_Data reads and writes
    run,        \* the Ingest_Data operation in progress (or last finished) and its counters
    program,    \* the script the Python process was started on
    todo,       \* the steps the script has still to run, in order
    proc,       \* the state of the process: running, exited, or ended by an exception
    store,      \* the fields of the PDFVectorStore object
    mod,        \* the module-level globals of memory_for_llm.py
    disk,       \* the PDF directory and the persisted index
    ingestion   \* what became of the ingestion stage of train.py

ingestVars == <<environ, call, obj, ctor, fs, run>>
pipeVars == <<program, todo, proc, store, mod, disk, ingestion>>
vars == <<ingestVars, pipeVars>>

-----------------------------------------------------------------------------
(* Values *)

None == "<None>"

DriveUrl == "https://drive.google.com/file/d/FILE_ID/view?usp=sharing"
BareDriveUrl == "drive.google.com"
PlainUrl == "https://example.com/data.zip"

\* url.split("/")
UrlSplit(url) ==
    CASE url = DriveUrl ->
           <<"https:", "", "drive.google.com", "file", "d", "FILE_ID", "view?usp=sharing">>
      [] url = BareDriveUrl -> <<"drive.google.com">>
      [] url = PlainUrl -> <<"https:", "", "example.com", "data.zip">>

\* "drive.google.com" in url
IsDriveUrl(url) == \E i \in 1..Len(UrlSplit(url)) : UrlSplit(url)[i] = "drive.google.com"

\* url.split("/")[-2] : an IndexError when the list has fewer than two items
HasFileId(url) == Len(UrlSplit(url)) >= 2
FileId(url) == UrlSplit(url)[Len(UrlSplit(url)) - 1]

NestedPath == "artifacts/data.zip"
BarePath == "data.zip"

PathParts(path) ==
    CASE path = NestedPath -> <<"artifacts", "data.zip">>
      [] path = BarePath -> <<"data.zip">>

\* os.path.dirname(path): the components before the last one ("" when there is none)
Dirname(path) == SubSeq(PathParts(path), 1, Len(PathParts(path)) - 1)

\* Python truthiness of an Optional[str]
Truthy(v) == v \notin {None, ""}

\* Python's `a or b`
PyOr_fallbackFirst(a, b) == IF Truthy(b) THEN b ELSE a
PyOr(a, b) == IF Truthy(a) THEN a ELSE b

-----------------------------------------------------------------------------
(* The vectorization side: values *)

NoIndex == [present |-> FALSE, chunks |-> <<>>]
StaleIndex == [present |-> TRUE, chunks |-> << <<0, 0>> >>]

NoStore == [documents |-> <<>>, text_chunks |-> <<>>, embedding_model |-> FALSE,
            db |-> NoIndex]

Running == [status |-> "running", exc |-> "none", during |-> "none", logged |-> FALSE]

\* no script is being run
NoPipeline ==
    /\ program = "none"
    /\ todo = <<>>
    /\ proc = Running
    /\ store = NoStore
    /\ mod = NoStore
    /\ disk = [dataExists |-> FALSE, pages |-> <<>>, index |-> NoIndex]
    /\ ingestion = "notrun"

-----------------------------------------------------------------------------
(* Ingest_Data.__init__ *)

ArgUrls == {None, "", DriveUrl}
EnvUrls == {None, "", PlainUrl}
ArgPaths == {None, "", BarePath}
CfgPaths == {None, "", NestedPath}
ArgDirs == {None, "", "out"}
CfgDirs == {None, "", "artifacts/data"}

NoCall == [sourceURL |-> None, zipFile |-> None, unzipData |-> None, overwrite |-> FALSE,
           made |-> FALSE]
NoObj == [source_url |-> None, local_data_file |-> None, unzip_dir |-> None,
          overwrite |-> FALSE]

\* lines 49-52: the fields as assigned from the arguments, the environment and the config
Resolved(args, env) ==
    [source_url |-> PyOr(args.sourceURL, env.SOURCE_URL),
     local_data_file |-> PyOr(args.zipFile, env.ZIP_FILE),
     unzip_dir |-> PyOr(args.unzipData, env.UNZIP_DATA),
     overwrite |-> args.overwrite]

\* line 54
MissingConfig(o) ==
    ~Truthy(o.source_url) \/ ~Truthy(o.local_data_file) \/ ~Truthy(o.unzip_dir)

IdleRun == [op |-> "none", pc |-> "idle", caller |-> "none", entered |-> FALSE, attempt |-> 0, retries |-> 0,
            attempts |-> 0, downloadCalls |-> 0, sleeps |-> 0, failures |-> 0,
            result |-> "none", error |-> "none", method |-> "none"]

NoFs == [archive |-> "absent", parentDir |-> FALSE, unzipExists |-> FALSE,
         unzipEntries |-> {}]

Construct(sourceURL, zipFile, unzipData, overwrite) ==
    /\ ctor = "none"
    /\ LET args == [sourceURL |-> sourceURL, zipFile |-> zipFile, unzipData |-> unzipData,
                    overwrite |-> overwrite, made |-> TRUE]
           o == Resolved(args, environ)
       IN /\ call' = args
          /\ IF MissingConfig(o)
             THEN ctor' = "raised" /\ obj' = NoObj
             ELSE ctor' = "constructed" /\ obj' = o
    /\ UNCHANGED <<environ, fs, run, pipeVars>>

InitConfig ==
    /\ environ \in [SOURCE_URL : EnvUrls, ZIP_FILE : CfgPaths, UNZIP_DATA : CfgDirs]
    /\ call = NoCall
    /\ obj = NoObj
    /\ ctor = "none"
    /\ fs = NoFs
    /\ run = IdleRun
    /\ NoPipeline

NextConfig ==
    \E u \in ArgUrls, z \in ArgPaths, d \in ArgDirs, ow \in BOOLEAN : Construct(u, z, d, ow)

SpecConfig == InitConfig /\ [][NextConfig]_vars

-----------------------------------------------------------------------------
(* The filesystem as Ingest_Data sees it *)

\* what the file at local_data_file holds; "ziptar" carries both signatures
ArchiveKinds == {"absent", "empty", "zip", "tar", "ziptar", "other"}

\* os.path.exists(path)
Exists(kind) == kind # "absent"

\* os.path.exists(output) and os.path.getsize(output) > 0  (line 74)
PresentValid(kind) == kind \notin {"absent", "empty"}

\* zipfile.is_zipfile / tarfile.is_tarfile: content sniffing
is_zipfile(kind) == kind \in {"zip", "ziptar"}
is_tarfile(kind) == kind \in {"tar", "ziptar"}

\* lines 109-120: the branch extract_file takes
ArchiveFormat_tarFirst(kind) ==
    IF is_tarfile(kind) THEN "tar" ELSE IF is_zipfile(kind) THEN "zip" ELSE "unsupported"
ArchiveFormat(kind) ==
    IF is_zipfile(kind) THEN "zip" ELSE IF is_tarfile(kind) THEN "tar" ELSE "unsupported"

\* what one gdown.download call can do: raise, return without writing the output,
\* or write an output file of some kind
DownloadOutcomes == {"raise", "nowrite", "empty", "zip", "tar", "ziptar", "other"}

AfterDownload(kind, outcome) ==
    IF outcome \in {"raise", "nowrite"} THEN kind ELSE outcome

-----------------------------------------------------------------------------
(* Ingest_Data._retry_download, download_file, extract_file *)

DefaultRetries == 3
MaxRetries == 3

\* line 90
SkipDownload_never(exists, overwrite) == FALSE
SkipDownload(exists, overwrite) == exists /\ ~overwrite

\* line 82
MoreAttempts_offByOne(attempt, retries) == attempt + 1 < retries
MoreAttempts(attempt, retries) == attempt < retries

Started(op, caller, retries) ==
    [IdleRun EXCEPT !.op = op, !.caller = caller, !.retries = retries]

Raised(r, error) == [r EXCEPT !.pc = "idle", !.result = "raised", !.error = error]
Returned(r) == [r EXCEPT !.pc = "idle", !.result = "returned"]

\* _retry_download is entered; range(1, retries + 1): the first iteration, or a plain
\* return when there is none
EnterLoop(r) ==
    IF r.retries >= 1
    THEN [r EXCEPT !.entered = TRUE, !.pc = "attempt", !.attempt = 1]
    ELSE Returned([r EXCEPT !.entered = TRUE])

\* lines 87-99, up to the first iteration of the loop of _retry_download
download_file ==
    /\ ctor = "constructed"
    /\ run.pc = "idle"
    /\ LET r == Started("download_file", "download_file", DefaultRetries) IN
       IF SkipDownload(Exists(fs.archive), obj.overwrite)
       THEN run' = Returned(r) /\ fs' = fs
       ELSE IF Dirname(obj.local_data_file) = <<>>
            \* os.makedirs("") raises FileNotFoundError
            THEN run' = Raised(r, "FileNotFoundError") /\ fs' = fs
            ELSE /\ fs' = [fs EXCEPT !.parentDir = TRUE]
                 /\ run' = EnterLoop(r)
    /\ UNCHANGED <<environ, call, obj, ctor, pipeVars>>

\* lines 62-64: a direct call with an explicit retry count
_retry_download(retries) ==
    /\ ctor = "constructed"
    /\ run.pc = "idle"
    /\ run' = EnterLoop(Started("_retry_download", "none", retries))
    /\ UNCHANGED <<environ, call, obj, ctor, fs, pipeVars>>

\* lines 65-85: one iteration of the loop
attempt_download(outcome) ==
    /\ run.pc = "attempt"
    /\ LET transfer == ~IsDriveUrl(obj.source_url) \/ HasFileId(obj.source_url)
           kind == IF transfer THEN AfterDownload(fs.archive, outcome) ELSE fs.archive
           ok == transfer /\ outcome # "raise" /\ PresentValid(kind)
           r == [run EXCEPT !.attempts = @ + 1,
                            !.downloadCalls = IF transfer THEN @ + 1 ELSE @]
       IN /\ fs' = [fs EXCEPT !.archive = kind]
          /\ IF ok
             THEN run' = Returned(r)
             ELSE LET f == [r EXCEPT !.failures = @ + 1] IN
                  IF MoreAttempts(run.attempt, run.retries)
                  THEN run' = [f EXCEPT !.pc = "sleep"]
                  ELSE run' = Raised(f, "DownloadError")
    /\ UNCHANGED <<environ, call, obj, ctor, pipeVars>>

\* line 83, then the next iteration
sleep ==
    /\ run.pc = "sleep"
    /\ run' = [run EXCEPT !.sleeps = @ + 1, !.attempt = @ + 1, !.pc = "attempt"]
    /\ UNCHANGED <<environ, call, obj, ctor, fs, pipeVars>>

\* lines 101-124; extractall either completes or fails part-way
extract_file(complete) ==
    /\ ctor = "constructed"
    /\ run.pc = "idle"
    /\ LET r == Started("extract_file", "none", 0)
           fmt == ArchiveFormat(fs.archive)
       IN IF ~Exists(fs.archive)
          THEN run' = Raised(r, "NotFound") /\ fs' = fs
          ELSE IF fmt = "unsupported"
               THEN /\ run' = Raised(r, "Unsupported")
                    /\ fs' = [fs EXCEPT !.unzipExists = TRUE]
               ELSE /\ fs' = [fs EXCEPT !.unzipExists = TRUE,
                                        !.unzipEntries = @ \cup {fmt}]
                    /\ run' = IF complete
                              THEN Returned([r EXCEPT !.method = fmt])
                              ELSE Raised([r EXCEPT !.method = fmt], "ExtractError")
    /\ UNCHANGED <<environ, call, obj, ctor, pipeVars>>

IngestUrls == {DriveUrl, BareDriveUrl, PlainUrl}
IngestPaths == {NestedPath, BarePath}

\* the state after Ingest_Data(sourceURL, zipFile, unzipData, overwrite) returned,
\* over any content of the destination path and of the extraction directory
InitIngest ==
    /\ environ = [SOURCE_URL |-> None, ZIP_FILE |-> None, UNZIP_DATA |-> None]
    /\ \E u \in IngestUrls, z \in IngestPaths, ow \in BOOLEAN :
          /\ call = [sourceURL |-> u, zipFile |-> z, unzipData |-> "artifacts/data",
                     overwrite |-> ow, made |-> TRUE]
          /\ obj = Resolved(call, environ)
    /\ ctor = "constructed"
    /\ fs \in [archive : ArchiveKinds, parentDir : BOOLEAN, unzipExists : BOOLEAN,
               unzipEntries : {{}, {"old"}}]
    /\ Exists(fs.archive) => fs.parentDir
    /\ fs.unzipEntries # {} => fs.unzipExists
    /\ run = IdleRun
    /\ NoPipeline

NextIngest ==
    \/ download_file
    \/ \E n \in 0..MaxRetries : _retry_download(n)
    \/ \E outcome \in DownloadOutcomes : attempt_download(outcome)
    \/ sleep
    \/ \E complete \in BOOLEAN : extract_file(complete)

SpecIngest == InitIngest /\ [][NextIngest]_vars

-----------------------------------------------------------------------------
(* memory_for_llm.py: PDFVectorStore and the module-level script *)

MaxPages == 2

\* a PDF page as the splitter sees it: no text, at most chunk_size characters, or more
PageKinds == {"blank", "short", "long"}

PageSeqs == UNION {[1..n -> PageKinds] : n \in 0..MaxPages}

\* RecursiveCharacterTextSplitter.split_documents: the chunks <<page, part>> of the
\* pages from index i on; a page without text yields none
RECURSIVE SplitFrom(_, _)
SplitFrom(pages, i) ==
    IF i > Len(pages) THEN <<>>
    ELSE (CASE pages[i] = "blank" -> <<>>
            [] pages[i] = "short" -> << <<i, 1>> >>
            [] pages[i] = "long" -> << <<i, 1>>, <<i, 2>> >>)
         \o SplitFrom(pages, i + 1)

split_documents(pages) == SplitFrom(pages, 1)

\* FAISS.from_documents over a non-empty chunk list
IndexOver(chunks) == [present |-> TRUE, chunks |-> chunks]

Step == IF todo = <<>> THEN "none" ELSE Head(todo)

\* the step returned: on to the next one, or the script is over
Proceed ==
    /\ todo' = Tail(todo)
    /\ proc' = IF Tail(todo) = <<>> THEN [proc EXCEPT !.status = "exited"] ELSE proc

\* an exception no handler of the script catches ends the process
Die(exc, during) ==
    /\ todo' = <<>>
    /\ proc' = [status |-> "raised", exc |-> exc, during |-> during, logged |-> FALSE]

\* lines 54-65
load_pdfs ==
    /\ Step = "load_pdfs"
    /\ IF disk.dataExists
       THEN store' = [store EXCEPT !.documents = disk.pages] /\ Proceed
       ELSE store' = store /\ Die("FileNotFoundError", "main")
    /\ UNCHANGED <<ingestVars, program, mod, disk, ingestion>>

\* lines 67-82
create_chunks ==
    /\ Step = "create_chunks"
    /\ IF store.documents = <<>>
       THEN store' = store /\ Die("ValueError", "main")
       ELSE /\ store' = [store EXCEPT !.text_chunks = split_documents(store.documents)]
            /\ Proceed
    /\ UNCHANGED <<ingestVars, program, mod, disk, ingestion>>

\* lines 84-92; loading the model succeeds or fails
load_embedding_model(ok) ==
    /\ Step = "load_embedding_model"
    /\ IF ok
       THEN store' = [store EXCEPT !.embedding_model = TRUE] /\ Proceed
       ELSE store' = store /\ Die("OSError", "main")
    /\ UNCHANGED <<ingestVars, program, mod, disk, ingestion>>

\* lines 94-107
build_faiss_index(ok) ==
    /\ Step = "build_faiss_index"
    /\ IF store.text_chunks = <<>>
       THEN store' = store /\ Die("ValueError", "main")
       ELSE IF ~store.embedding_model /\ ~ok
            THEN store' = store /\ Die("OSError", "main")
            ELSE /\ store' = [store EXCEPT !.embedding_model = TRUE,
                                           !.db = IndexOver(store.text_chunks)]
                 /\ Proceed
    /\ UNCHANGED <<ingestVars, program, mod, disk, ingestion>>

\* lines 109-115
save_index ==
    /\ Step = "save_index"
    /\ IF ~store.db.present
       THEN disk' = disk /\ Die("ValueError", "main")
       ELSE disk' = [disk EXCEPT !.index = store.db] /\ Proceed
    /\ UNCHANGED <<ingestVars, program, store, mod, ingestion>>

\* lines 144-152
mod_load_pdf_files ==
    /\ Step = "mod_load_pdf_files"
    /\ IF disk.dataExists
       THEN mod' = [mod EXCEPT !.documents = disk.pages] /\ Proceed
       ELSE mod' = mod /\ Die("FileNotFoundError", "import")
    /\ UNCHANGED <<ingestVars, program, store, disk, ingestion>>

\* lines 157-163
mod_create_chunks ==
    /\ Step = "mod_create_chunks"
    /\ mod' = [mod EXCEPT !.text_chunks = split_documents(mod.documents)]
    /\ Proceed
    /\ UNCHANGED <<ingestVars, program, store, disk, ingestion>>

\* lines 168-172
mod_get_embedding_model(ok) ==
    /\ Step = "mod_get_embedding_model"
    /\ IF ok
       THEN mod' = [mod EXCEPT !.embedding_model = TRUE] /\ Proceed
       ELSE mod' = mod /\ Die("OSError", "import")
    /\ UNCHANGED <<ingestVars, program, store, disk, ingestion>>

\* line 176; FAISS.from_documents indexes the first embedding, which an empty list lacks
mod_from_documents ==
    /\ Step = "mod_from_documents"
    /\ IF mod.text_chunks = <<>>
       THEN mod' = mod /\ Die("IndexError", "import")
       ELSE mod' = [mod EXCEPT !.db = IndexOver(mod.text_chunks)] /\ Proceed
    /\ UNCHANGED <<ingestVars, program, store, disk, ingestion>>

\* line 177
mod_save_local ==
    /\ Step = "mod_save_local"
    /\ disk' = [disk EXCEPT !.index = mod.db]
    /\ Proceed
    /\ UNCHANGED <<ingestVars, program, store, mod, ingestion>>

-----------------------------------------------------------------------------
(* The orchestrators and the scripts *)

\* a call binds when every keyword it passes is a parameter of the callee
KeywordsBind(keywords, params) == keywords \subseteq params

\* download_data_file.py lines 44-45
Ingest_Data_params == {"sourceURL", "zipFile", "unzipData", "overwrite"}
\* stage01_data_ingestion.py lines 33-38
Stage01_keywords == {"source_url", "local_data_file", "unzip_dir", "overwrite"}

\* memory_for_llm.py line 54: load_pdfs(self)
load_pdfs_params == {}
\* stage02_memory.py line 24
Stage02_keywords == {"data"}

\* Data_Ingestion_Pipeline.main, up to the construction of Ingest_Data
Stage01Outcome ==
    IF KeywordsBind(Stage01_keywords, Ingest_Data_params) THEN "constructed" ELSE "TypeError"

\* Vector_DB_Pipeline.main, up to its first call on the store
Stage02Outcome ==
    IF KeywordsBind(Stage02_keywords, load_pdfs_params) THEN "loaded" ELSE "TypeError"

\* train.py `except MyException`: the handler that logs and re-raises
Caught(exc) == exc = "MyException"

\* train.py lines 7-14: the ingestion stage
train_stage01 ==
    /\ Step = "train_stage01"
    /\ IF Stage01Outcome = "TypeError"
       THEN /\ todo' = <<>>
            /\ proc' = [status |-> "raised", exc |-> "TypeError",
                        during |-> "Data Ingestion", logged |-> Caught("TypeError")]
            /\ ingestion' = "failed"
       \* the call binds: download_file and extract_file would follow
       ELSE /\ todo' = <<"download_file", "extract_file">> \o Tail(todo)
            /\ proc' = proc
            /\ ingestion' = "running"
    /\ UNCHANGED <<ingestVars, program, store, mod, disk>>

\* stage02_memory.py lines 31-36: Vector_DB_Pipeline().main()
stage02_main ==
    /\ Step = "stage02_main"
    /\ store' = NoStore
    /\ IF Stage02Outcome = "TypeError"
       THEN /\ todo' = <<>>
            /\ proc' = [status |-> "raised", exc |-> "TypeError",
                        during |-> "Vector DB preration", logged |-> FALSE]
       ELSE /\ todo' = <<"create_chunks", "load_embedding_model", "build_faiss_index">>
            /\ proc' = proc
    /\ UNCHANGED <<ingestVars, program, mod, disk, ingestion>>

\* memory_for_llm.py lines 142-177, run when the module is imported or run
ModuleScript ==
    <<"mod_load_pdf_files", "mod_create_chunks", "mod_get_embedding_model",
      "mod_from_documents", "mod_save_local">>

\* PDFVectorStore.run_pipeline, lines 117-129
run_pipeline ==
    <<"load_pdfs", "create_chunks", "load_embedding_model", "build_faiss_index",
      "save_index">>

\* the steps of a script, imports first; train_stage02 stands for train.py lines 16-23
Script(prog) ==
    CASE prog = "train.py" -> ModuleScript \o <<"train_stage01", "train_stage02">>
      [] prog = "stage02_memory.py" -> ModuleScript \o <<"stage02_main">>
      [] prog = "memory_for_llm.py" -> run_pipeline \o ModuleScript

Programs == {"train.py", "stage02_memory.py", "memory_for_llm.py"}

\* a process started on one of the scripts, over any content of the PDF directory and
\* with or without an index left by an earlier run
InitPipeline ==
    /\ environ = [SOURCE_URL |-> None, ZIP_FILE |-> None, UNZIP_DATA |-> None]
    /\ call = NoCall
    /\ obj = NoObj
    /\ ctor = "none"
    /\ fs = NoFs
    /\ run = IdleRun
    /\ program \in Programs
    /\ todo = Script(program)
    /\ proc = Running
    /\ store = NoStore
    /\ mod = NoStore
    /\ disk \in [dataExists : BOOLEAN, pages : PageSeqs, index : {NoIndex, StaleIndex}]
    /\ ~disk.dataExists => disk.pages = <<>>
    /\ ingestion = "notrun"

NextPipeline ==
    \/ load_pdfs
    \/ create_chunks
    \/ \E ok \in BOOLEAN : load_embedding_model(ok)
    \/ \E ok \in BOOLEAN : build_faiss_index(ok)
    \/ save_index
    \/ mod_load_pdf_files
    \/ mod_create_chunks
    \/ \E ok \in BOOLEAN : mod_get_embedding_model(ok)
    \/ mod_from_documents
    \/ mod_save_local
    \/ train_stage01
    \/ stage02_main

SpecPipeline == InitPipeline /\ [][NextPipeline]_vars

-----------------------------------------------------------------------------
(* Properties of Ingest_Data *)

\* C6: after Ingest_Data(...) was called, each of the three settings resolved to the
\* explicit argument when one was supplied (a non-empty string) and otherwise to the
\* environment/config value; the call raised exactly when a resolved setting is missing
\* (None or empty), and otherwise the object carries the resolved values.
C6_ConfigResolution ==
    call.made =>
        LET Supplied(a) == a # None /\ a # ""
            u == IF Supplied(call.sourceURL) THEN call.sourceURL ELSE environ.SOURCE_URL
            z == IF Supplied(call.zipFile) THEN call.zipFile ELSE environ.ZIP_FILE
            d == IF Supplied(call.unzipData) THEN call.unzipData ELSE environ.UNZIP_DATA
            missing == \E v \in {u, z, d} : ~Supplied(v)
        IN /\ ctor \in {"raised", "constructed"}
           /\ ctor = "raised" <=> missing
           /\ ctor = "constructed" =>
                 obj = [source_url |-> u, local_data_file |-> z, unzip_dir |-> d,
                        overwrite |-> call.overwrite]

\* an argument and an environment value are both present: the argument wins
C6_Witness ==
    /\ ctor = "constructed"
    /\ call.sourceURL = DriveUrl /\ environ.SOURCE_URL = PlainUrl
    /\ call.zipFile = None /\ environ.ZIP_FILE = NestedPath
    /\ obj.source_url = DriveUrl /\ obj.local_data_file = NestedPath

\* C1: once _retry_download is entered with retries >= 1, it never makes more than
\* `retries` attempts, has slept once per attempt already followed by another one, and
\* when it has finished with every attempt failed it has raised the download error after
\* exactly `retries` attempts (each one a download call when the URL yields one) and
\* `retries - 1` sleeps; having raised, it is at no position of the loop any more.
C1_RetryBound ==
    (run.entered /\ run.retries >= 1) =>
        /\ run.attempts <= run.retries
        /\ run.failures <= run.attempts
        /\ run.pc = "attempt" => run.sleeps = run.attempts /\ run.attempt = run.attempts + 1
        /\ run.pc = "sleep" => run.sleeps = run.attempts - 1 /\ run.attempts < run.retries
        /\ run.result # "none" => run.pc = "idle"
        /\ (run.pc = "idle" /\ run.failures = run.attempts) =>
              /\ run.result = "raised"
              /\ run.error = "DownloadError"
              /\ run.attempts = run.retries
              /\ run.sleeps = run.retries - 1
              /\ (~IsDriveUrl(obj.source_url) \/ HasFileId(obj.source_url))
                    => run.downloadCalls = run.retries

\* every transfer of a _retry_download call with two or more retries failed
C1_Witness ==
    /\ run.op = "_retry_download"
    /\ run.retries >= 2
    /\ run.result = "raised"
    /\ run.downloadCalls = run.retries
    /\ run.sleeps = run.retries - 1

\* C2: a download_file call made while a non-empty file exists at the destination and
\* overwrite is false returns at once with no download call, no attempt, no sleep, and
\* leaves the file and the directories as they were; so does every later such call.
C2_FetchSkip ==
    [][(/\ run.pc = "idle"
        /\ run'.op = "download_file"
        /\ PresentValid(fs.archive)
        /\ ~obj.overwrite)
       => (/\ run'.pc = "idle"
           /\ run'.result = "returned"
           /\ run'.downloadCalls = 0
           /\ run'.attempts = 0
           /\ run'.sleeps = 0
           /\ fs' = fs)]_vars

C2_Witness ==
    /\ run.op = "download_file"
    /\ run.result = "returned"
    /\ run.attempts = 0
    /\ PresentValid(fs.archive)
    /\ ~obj.overwrite

\* C3: a download_file call that has returned or raised, with overwrite true and a file
\* at the destination, has made at least one download call.
C3_OverwriteDownloads ==
    (/\ run.op = "download_file"
     /\ run.pc = "idle"
     /\ run.result # "none"
     /\ obj.overwrite
     /\ Exists(fs.archive))
    => run.downloadCalls >= 1

\* C10: whenever download_file has returned normally, a non-empty file exists at the
\* destination path.
C10_FetchPostcondition ==
    (run.op = "download_file" /\ run.pc = "idle" /\ run.result = "returned")
    => PresentValid(fs.archive)

\* C4: extract_file on an existing archive uses the zip method when the zip signature is
\* recognised (also when the tar one is too), the tar method when only the tar signature
\* is, and otherwise raises the unsupported-format error having written no entry into the
\* target directory.
C4_FormatDispatch ==
    [][(run.pc = "idle" /\ run'.op = "extract_file" /\ Exists(fs.archive))
       => /\ is_zipfile(fs.archive) =>
                /\ run'.method = "zip"
                /\ fs'.unzipEntries \ fs.unzipEntries \subseteq {"zip"}
          /\ (~is_zipfile(fs.archive) /\ is_tarfile(fs.archive)) =>
                /\ run'.method = "tar"
                /\ fs'.unzipEntries \ fs.unzipEntries \subseteq {"tar"}
          /\ (~is_zipfile(fs.archive) /\ ~is_tarfile(fs.archive)) =>
                /\ run'.result = "raised"
                /\ run'.error = "Unsupported"
                /\ run'.method = "none"
                /\ fs'.unzipEntries = fs.unzipEntries
                /\ fs'.archive = fs.archive]_vars

\* an archive carrying both signatures was extracted as a zip
C4_Witness ==
    /\ run.op = "extract_file"
    /\ fs.archive = "ziptar"
    /\ run.method = "zip"
    /\ run.result = "returned"
    /\ "zip" \in fs.unzipEntries

-----------------------------------------------------------------------------
(* Properties of the vectorization side and of the scripts *)

VectorizationSteps ==
    {ModuleScript[i] : i \in 1..Len(ModuleScript)}
        \cup {run_pipeline[i] : i \in 1..Len(run_pipeline)}

\* C7: train.py performs no vectorization operation (loading PDFs, chunking, loading the
\* embedding model, building or saving the index) unless the ingestion stage has run to
\* completion.
C7_StageOrdering ==
    [][(/\ program = "train.py"
        /\ Step \in VectorizationSteps
        /\ todo' = Tail(todo)
        /\ proc'.status # "raised")
       => ingestion = "completed"]_vars

\* C8: a failure that ends train.py while a stage runs has been logged by the script and
\* reaches the process boundary as the domain exception type.
C8_ErrorPropagation ==
    (/\ program = "train.py"
     /\ proc.status = "raised"
     /\ proc.during \in {"Data Ingestion", "Vector DB preration"})
    => (proc.exc = "MyException" /\ proc.logged)

\* C9: when build_faiss_index returns normally on a non-empty chunk collection, the index
\* over those chunks is the object's db and is what is stored at the output path.
C9_BuildPersists ==
    [][(/\ Step = "build_faiss_index"
        /\ store.text_chunks # <<>>
        /\ todo' # todo
        /\ proc'.status # "raised")
       => (/\ store'.db = IndexOver(store.text_chunks)
           /\ disk'.index = store'.db)]_vars

\* C5: chunking an empty document collection and building an index over an empty chunk
\* collection, by the methods of PDFVectorStore or by the module-level code, raise the
\* validation error, load no embedding model, build no index and write nothing.
C5_EmptyInputGuard ==
    [][(\/ /\ Step = "create_chunks" /\ store.documents = <<>>
        \/ /\ Step = "build_faiss_index" /\ store.text_chunks = <<>>
        \/ /\ Step = "mod_create_chunks" /\ mod.documents = <<>>
        \/ /\ Step = "mod_from_documents" /\ mod.text_chunks = <<>>)
       => (/\ proc'.status = "raised"
           /\ proc'.exc = "ValueError"
           /\ store'.embedding_model = store.embedding_model
           /\ mod'.embedding_model = mod.embedding_model
           /\ store'.db = store.db
           /\ mod'.db = mod.db
           /\ disk' = disk)]_vars

====
